---- MODULE Spec2Model ----
(***************************************************************************)
(* Job orchestration engine of app.py: the SQLite job table, one render   *)
(* thread per submitted job (process_asmr_video) and the single scheduler *)
(* thread (scheduler_loop) that uploads rendered jobs when they are due.  *)
(* Every SQL statement is one atomic step; what a thread does between two *)
(* statements is local and is merged into the statement that follows.     *)
(* Every statement of the store may raise (sqlite3.OperationalError) in   *)
(* place of taking effect, and the handler the code has for it runs.      *)
(***************************************************************************)
EXTENDS Integers, Sequences, FiniteSets, TLC

\* ------------------------------------------------------------------ bounds
MaxJobs == 2        \* jobs submitted in one run
MaxTime == 1        \* the wall clock runs over 0..MaxTime
MaxStoreLog == 1    \* log entries appended by direct calls of the store (StoreSpec)

\* --------------------------------------------------------------- constants
None == "None"              \* Python None / SQL NULL
DefaultHours == 1           \* st.number_input("Duration (Hours)", 0.1, 24.0, 1.0, 0.1)
ProgressCap == 99           \* min(..., 99) in the render loop
ProgressDone == 100         \* update_job_progress(job_id, 100, ...)

Times == 0..MaxTime

\* Schedules chosen at submission: already reached, or at the horizon.
SchedTimes == {0, MaxTime}

\* Encoder diagnostic lines: no "time=" token, or the token's (h, m, s).
NoToken == <<>>
Lines == {NoToken, <<0, 0, 0>>, <<0, 17, 24>>, <<2, 0, 0>>}

\* Percents int(status.progress() * 100) of an unfinished resumable upload.
UploadPercents == {50}

Min(a, b) == IF a <= b THEN a ELSE b

\* ------------------------------------------------------------------- state
VARIABLES
    jobs,        \* the jobs table: a sequence of rows, the row's index is its id
    now,         \* the wall clock
    rpc,         \* render thread of each job: its position
    rlog,        \* render thread: the logs value its last SELECT returned
    rerr,        \* render thread: the exception being handled
    spawned,     \* whether an encoder process was started for the job
    spc,         \* scheduler thread: its position
    sjobs,       \* scheduler thread: rest of the list returned by get_ready_to_upload_jobs
    scur,        \* scheduler thread: id of the job being dispatched
    slog,        \* scheduler thread: the logs value its last SELECT returned
    serr,        \* scheduler thread: the exception being handled
    uploadCalls, \* per job: how many times upload_video_to_youtube was invoked
    req,         \* the arguments of the last direct call of the store (StoreSpec)
    current_time, \* scheduler thread: datetime.datetime.now() read for the job at hand
    dueAtPoll    \* the jobs that were ready and due when the current pass began

vars == <<jobs, now, rpc, rlog, rerr, spawned,
          spc, sjobs, scur, slog, serr, current_time, uploadCalls, req, dueAtPoll>>

rvars == <<rpc, rlog, rerr, spawned>>
svars == <<spc, sjobs, scur, slog, serr, current_time>>
hvars == <<uploadCalls, req, dueAtPoll>>

Ids == 1..MaxJobs
JobIds == 1..Len(jobs)

\* ------------------------------------------------------------ the job store

\* add_job: the inserted row; columns not named in the INSERT take the
\* table's defaults (youtube_id, output_path NULL, logs '').
NewRow(scheduled_at) ==
    [ scheduled_at  |-> scheduled_at,
      status_render |-> "pending",
      status_upload |-> "idle",
      youtube_id    |-> None,
      output_path   |-> None,
      logs          |-> <<>>,
      progress      |-> 0,
      eta_text      |-> "Waiting..." ]

\* "if render_status:" and the like: None and '' are skipped.
Truthy(x) == x # None /\ x # ""

\* The new log made of the appended entry alone.
NewLog_Overwrite(current_log, log_msg) ==
    <<log_msg>>

\* f"{current_log}\n[{timestamp}] {log_msg}": one more entry after the ones
\* read.  The "[timestamp]" prefix is the same strftime of datetime.now() for
\* every entry and nothing reads it back, so an entry is its message.
NewLog(current_log, log_msg) ==
    Append(current_log, log_msg)

\* update_job_status with "status_render = ?" always in the SET list.
update_job_status_AlwaysRender(row, render_status, upload_status, output_path, log_msg, youtube_id, current_log) ==
    [ row EXCEPT
        !.status_render = render_status,
        !.status_upload = IF Truthy(upload_status) THEN upload_status ELSE @,
        !.output_path   = IF Truthy(output_path) THEN output_path ELSE @,
        !.youtube_id    = IF Truthy(youtube_id) THEN youtube_id ELSE @,
        !.logs          = IF Truthy(log_msg)
                          THEN Append(current_log, log_msg) ELSE @ ]

\* The UPDATE of update_job_status on one row.  An argument that is None is
\* left out of the SET list; current_log is what the SELECT logs returned.
update_job_status(row, render_status, upload_status, output_path, log_msg, youtube_id, current_log) ==
    [ row EXCEPT
        !.status_render = IF Truthy(render_status) THEN render_status ELSE @,
        !.status_upload = IF Truthy(upload_status) THEN upload_status ELSE @,
        !.output_path   = IF Truthy(output_path) THEN output_path ELSE @,
        !.youtube_id    = IF Truthy(youtube_id) THEN youtube_id ELSE @,
        !.logs          = IF Truthy(log_msg)
                          THEN NewLog(current_log, log_msg) ELSE @ ]

\* UPDATE jobs SET progress = ?, eta_text = ? WHERE id = ?
update_job_progress(row, progress_percent, eta_msg) ==
    [ row EXCEPT !.progress = progress_percent, !.eta_text = eta_msg ]

\* The ready query without its status_upload condition.
IsReady_AnyUploadStatus(row) ==
    row.status_render = "success"

\* SELECT * FROM jobs WHERE status_render = 'success' AND status_upload = 'waiting_schedule'
IsReady(row) ==
    row.status_render = "success" /\ row.status_upload = "waiting_schedule"

RECURSIVE ReadyFrom(_, _)
ReadyFrom(table, i) ==
    IF i > Len(table) THEN <<>>
    ELSE IF IsReady(table[i]) THEN <<i>> \o ReadyFrom(table, i + 1)
    ELSE ReadyFrom(table, i + 1)

\* The ready query fetching one row only.
get_ready_to_upload_jobs_FirstOnly(table) ==
    IF ReadyFrom(table, 1) = <<>> THEN <<>> ELSE <<Head(ReadyFrom(table, 1))>>

get_ready_to_upload_jobs(table) == ReadyFrom(table, 1)

\* -------------------------------------------------------- progress estimate

target_duration_sec(duration_hours) == duration_hours * 3600

\* h * 3600 + m * 60 + s
current_sec(line) == line[1] * 3600 + line[2] * 60 + line[3]

\* Quotients k for which the double nearest to k/100, times 100, rounds
\* below k (0.29 * 100 = 28.999999999999996, and so on).
FloatShort == {29, 57, 58}

\* The estimate capped at 100 instead of 99.
Progress_Cap100(cur, target) ==
    Min((100 * cur) \div target, ProgressDone)

\* The estimate without its cap.
Progress_NoCap(cur, target) ==
    (100 * cur) \div target

\* min(int((current_sec / target_duration_sec) * 100), 99) in IEEE doubles:
\* the truncation differs from the exact floor only when 100*cur/target is
\* an integer of FloatShort.
Progress(cur, target) ==
    LET q == (100 * cur) \div target
        exact == (100 * cur) % target = 0
        v == IF exact /\ q \in FloatShort THEN q - 1 ELSE q
    IN  Min(v, ProgressCap)

\* The arguments of one update_job_status call.
Request(render_status, upload_status, output_path, log_msg, youtube_id) ==
    [ render_status |-> render_status, upload_status |-> upload_status,
      output_path |-> output_path, log_msg |-> log_msg, youtube_id |-> youtube_id ]

NoRequest == Request(None, None, None, None, None)

\* -------------------------------------------------------------------- Init
Init ==
    /\ req = NoRequest
    /\ jobs = <<>>
    /\ now = 0
    /\ rpc = [j \in Ids |-> "none"]
    /\ rlog = [j \in Ids |-> <<>>]
    /\ rerr = [j \in Ids |-> None]
    /\ spawned = [j \in Ids |-> FALSE]
    /\ spc = "sleep"
    /\ sjobs = <<>>
    /\ scur = 0
    /\ slog = <<>>
    /\ serr = None
    /\ uploadCalls = [j \in Ids |-> 0]
    /\ current_time = 0
    /\ dueAtPoll = {}

\* The clock advances.
Tick ==
    /\ now < MaxTime
    /\ now' = now + 1
    /\ UNCHANGED <<jobs, rvars, svars, hvars>>

\* ui_upload_tab: add_job, then the render thread is started.
Submit(scheduled_at) ==
    /\ Len(jobs) < MaxJobs
    /\ jobs' = Append(jobs, NewRow(scheduled_at))
    /\ rpc' = [rpc EXCEPT ![Len(jobs) + 1] = "check"]
    /\ UNCHANGED <<now, rlog, rerr, spawned, svars, hvars>>

\* ------------------------------------------------- process_asmr_video (job j)

\* if not shutil.which("ffmpeg"): raise EnvironmentError("FFmpeg not found!")
\* check_nvidia_gpu() swallows every failure and only picks the codec.  Both
\* ways the next statement is the SELECT logs of an update_job_status call.
RenderCheck(j, found) ==
    /\ rpc[j] = "check"
    /\ rlog' = [rlog EXCEPT ![j] = jobs[j].logs]
    /\ IF found
       THEN /\ rpc' = [rpc EXCEPT ![j] = "start_wr"]
            /\ UNCHANGED rerr
       ELSE /\ rpc' = [rpc EXCEPT ![j] = "except_wr"]
            /\ rerr' = [rerr EXCEPT ![j] = "FFmpeg not found!"]
    /\ UNCHANGED <<jobs, now, spawned, svars, hvars>>

\* update_job_status(job_id, render_status="rendering", log_msg=...): the
\* UPDATE.  The command is built and the encoder started after it.
RenderStart(j) ==
    /\ rpc[j] = "start_wr"
    /\ jobs' = [jobs EXCEPT ![j] =
                  update_job_status(@, "rendering", None, None, "1. Starting Render...",
                                    None, rlog[j])]
    /\ rpc' = [rpc EXCEPT ![j] = "popen"]
    /\ UNCHANGED <<now, rlog, rerr, spawned, svars, hvars>>

\* subprocess.Popen(cmd, ...) returns: the encoder runs, and the thread
\* blocks on its stderr pipe ("for line in process.stderr") with nothing
\* written yet.
RenderPopen(j) ==
    /\ rpc[j] = "popen"
    /\ spawned' = [spawned EXCEPT ![j] = TRUE]
    /\ rpc' = [rpc EXCEPT ![j] = "stream"]
    /\ UNCHANGED <<jobs, now, rlog, rerr, svars, hvars>>

\* subprocess.Popen(cmd, ...) raises OSError (the ffmpeg found on PATH cannot
\* be executed): no process is started, and the handler's update_job_status
\* call starts with the SELECT logs.
RenderPopenFails(j) ==
    /\ rpc[j] = "popen"
    /\ rerr' = [rerr EXCEPT ![j] = "[Errno 8] Exec format error: 'ffmpeg'"]
    /\ rlog' = [rlog EXCEPT ![j] = jobs[j].logs]
    /\ rpc' = [rpc EXCEPT ![j] = "except_wr"]
    /\ UNCHANGED <<jobs, now, spawned, svars, hvars>>

\* sqlite3.OperationalError as str(e) gives it.
StoreError == "database is locked"

\* update_job_status(job_id, render_status="rendering", ...) raises, in its
\* SELECT logs or in its UPDATE: the row stays 'pending', no command is built
\* and no encoder started, and the handler's update_job_status call starts
\* with the SELECT logs.
RenderStartFails(j) ==
    /\ rpc[j] \in {"check", "start_wr"}
    /\ rerr' = [rerr EXCEPT ![j] = StoreError]
    /\ rlog' = [rlog EXCEPT ![j] = jobs[j].logs]
    /\ rpc' = [rpc EXCEPT ![j] = "except_wr"]
    /\ UNCHANGED <<jobs, now, spawned, svars, hvars>>

\* One iteration of "for line in process.stderr": a line without a time
\* token, or with current_sec = 0, pushes nothing.
RenderLine(j, line) ==
    /\ rpc[j] = "stream"
    /\ line # NoToken
    /\ current_sec(line) > 0
    /\ jobs' = [jobs EXCEPT ![j] =
                  update_job_progress(@,
                      Progress(current_sec(line), target_duration_sec(DefaultHours)),
                      "Selesai jam ...")]
    /\ UNCHANGED <<now, rvars, svars, hvars>>

\* update_job_progress raises in the render thread, on a line of the stream
\* (the encoder is left running) or after process.wait() returned 0: nothing
\* is written and the handler takes over.
RenderProgressFails(j) ==
    /\ rpc[j] = "stream"
    /\ rerr' = [rerr EXCEPT ![j] = StoreError]
    /\ rlog' = [rlog EXCEPT ![j] = jobs[j].logs]
    /\ rpc' = [rpc EXCEPT ![j] = "except_wr"]
    /\ UNCHANGED <<jobs, now, spawned, svars, hvars>>

\* The stream ended and process.wait() returned 0:
\* update_job_progress(job_id, 100, "Render Done")
RenderFinalProgress(j) ==
    /\ rpc[j] = "stream"
    /\ jobs' = [jobs EXCEPT ![j] = update_job_progress(@, ProgressDone, "Render Done")]
    /\ rpc' = [rpc EXCEPT ![j] = "succ_rd"]
    /\ UNCHANGED <<now, rlog, rerr, spawned, svars, hvars>>

\* The SELECT logs of the final update_job_status call.
RenderReadLog(j) ==
    /\ rpc[j] = "succ_rd"
    /\ rlog' = [rlog EXCEPT ![j] = jobs[j].logs]
    /\ rpc' = [rpc EXCEPT ![j] = "succ_wr"]
    /\ UNCHANGED <<jobs, now, rerr, spawned, svars, hvars>>

\* process.wait() returned a non-zero code: the exception is raised and its
\* handler's update_job_status call starts with the SELECT logs.
RenderExitError(j, returncode) ==
    /\ rpc[j] = "stream"
    /\ returncode # 0
    /\ rerr' = [rerr EXCEPT ![j] = "FFmpeg returned error code " \o ToString(returncode)]
    /\ rlog' = [rlog EXCEPT ![j] = jobs[j].logs]
    /\ rpc' = [rpc EXCEPT ![j] = "except_wr"]
    /\ UNCHANGED <<jobs, now, spawned, svars, hvars>>

\* output_full_path = os.path.join(OUTPUT_DIR, f"asmr_{job_id}_{int(time.time())}.mp4")
output_full_path(j) == "outputs/asmr_" \o ToString(j) \o ".mp4"

\* The success update without output_path.
RenderSuccessRow_NoArtifact(row, j, current_log) ==
    update_job_status(row, "success", "waiting_schedule", None,
                      "2. Render Finished. Waiting for schedule.", None,
                      current_log)

\* The row update_job_status(render_status="success", upload_status=
\* "waiting_schedule", output_path=..., log_msg=...) leaves behind.
RenderSuccessRow(row, j, current_log) ==
    update_job_status(row, "success", "waiting_schedule", output_full_path(j),
                      "2. Render Finished. Waiting for schedule.", None,
                      current_log)

\* The success update followed by an exception in the same thread, whose
\* handler then writes the row once more.
RenderSuccess_ThenRaises(j) ==
    /\ rpc[j] = "succ_wr"
    /\ jobs' = [jobs EXCEPT ![j] = RenderSuccessRow(@, j, rlog[j])]
    /\ rpc' = [rpc EXCEPT ![j] = "except_wr"]
    /\ rerr' = [rerr EXCEPT ![j] = "cleanup failed"]
    /\ UNCHANGED <<now, rlog, spawned, svars, hvars>>

RenderSuccess(j) ==
    /\ rpc[j] = "succ_wr"
    /\ jobs' = [jobs EXCEPT ![j] = RenderSuccessRow(@, j, rlog[j])]
    /\ rpc' = [rpc EXCEPT ![j] = "done"]
    /\ UNCHANGED <<now, rlog, rerr, spawned, svars, hvars>>

\* The final update_job_status call raises, in its SELECT logs or in its
\* UPDATE: the row keeps 'rendering' and the progress 100 already committed,
\* and the handler takes over.
RenderSuccessFails(j) ==
    /\ rpc[j] \in {"succ_rd", "succ_wr"}
    /\ rerr' = [rerr EXCEPT ![j] = StoreError]
    /\ rlog' = [rlog EXCEPT ![j] = jobs[j].logs]
    /\ rpc' = [rpc EXCEPT ![j] = "except_wr"]
    /\ UNCHANGED <<jobs, now, spawned, svars, hvars>>

\* The render failure handler that only logs.
RenderFailedRow_LogOnly(row, current_log, e) ==
    update_job_status(row, None, None, None, "Rendering Failed: " \o e, None,
                      current_log)

\* except Exception as e: update_job_status(job_id, render_status="failed", log_msg=...)
RenderFailedRow(row, current_log, e) ==
    update_job_status(row, "failed", None, None, "Rendering Failed: " \o e, None,
                      current_log)

RenderFailed(j) ==
    /\ rpc[j] = "except_wr"
    /\ jobs' = [jobs EXCEPT ![j] = RenderFailedRow(@, rlog[j], rerr[j])]
    /\ rpc' = [rpc EXCEPT ![j] = "done"]
    /\ UNCHANGED <<now, rlog, rerr, spawned, svars, hvars>>

\* The handler's own update_job_status raises: nothing catches it, the
\* thread ends with the exception and the row stays as it was.
RenderFailedFails(j) ==
    /\ rpc[j] = "except_wr"
    /\ rpc' = [rpc EXCEPT ![j] = "died"]
    /\ UNCHANGED <<jobs, now, rlog, rerr, spawned, svars, hvars>>

process_asmr_video(j) ==
    \/ \E found \in BOOLEAN : RenderCheck(j, found)
    \/ RenderStart(j)
    \/ RenderStartFails(j)
    \/ RenderPopen(j)
    \/ RenderPopenFails(j)
    \/ \E line \in Lines : RenderLine(j, line)
    \/ RenderProgressFails(j)
    \/ RenderFinalProgress(j)
    \/ RenderReadLog(j)
    \/ \E returncode \in {1} : RenderExitError(j, returncode)
    \/ RenderSuccess(j)
    \/ RenderSuccessFails(j)
    \/ RenderFailed(j)
    \/ RenderFailedFails(j)

\* ------------------------------------------------------------ scheduler_loop

\* The jobs that are rendered, waiting for their schedule and due now.
DueNow ==
    { j \in JobIds : /\ jobs[j].status_render = "success"
                     /\ jobs[j].status_upload = "waiting_schedule"
                     /\ jobs[j].scheduled_at <= now }

\* jobs = get_ready_to_upload_jobs() at the top of a pass of "while True".
SchedPoll ==
    /\ spc = "sleep"
    /\ sjobs' = get_ready_to_upload_jobs(jobs)
    /\ dueAtPoll' = DueNow
    /\ spc' = "iter"
    /\ UNCHANGED <<jobs, now, rvars, scur, slog, serr, current_time, uploadCalls, req>>

\* The due test with the comparison dropped.
IsDue_Always(cur_time, scheduled_time) == TRUE

\* if current_time >= scheduled_time
IsDue(cur_time, scheduled_time) == cur_time >= scheduled_time

\* "for job in jobs" on a job that is due: current_time is read, and the
\* update_job_status call that follows starts with its SELECT logs.
\* scheduled_at is never written after add_job, so the snapshot's value is
\* the row's.
SchedDue ==
    /\ spc = "iter"
    /\ sjobs # <<>>
    /\ IsDue(now, jobs[Head(sjobs)].scheduled_at)
    /\ scur' = Head(sjobs)
    /\ sjobs' = Tail(sjobs)
    /\ slog' = jobs[Head(sjobs)].logs
    /\ current_time' = now
    /\ spc' = "upl_wr"
    /\ UNCHANGED <<jobs, now, rvars, serr, hvars>>

\* "for job in jobs" on a job whose schedule is still ahead: current_time is
\* read, the test fails and nothing else is done.
SchedNotDue ==
    /\ spc = "iter"
    /\ sjobs # <<>>
    /\ ~IsDue(now, jobs[Head(sjobs)].scheduled_at)
    /\ sjobs' = Tail(sjobs)
    /\ current_time' = now
    /\ UNCHANGED <<jobs, now, rvars, spc, scur, slog, serr, hvars>>

\* The list is exhausted: time.sleep(20).
SchedSleep ==
    /\ spc = "iter"
    /\ sjobs = <<>>
    /\ spc' = "sleep"
    /\ dueAtPoll' = {}
    /\ UNCHANGED <<jobs, now, rvars, sjobs, scur, slog, serr, current_time, uploadCalls, req>>

\* update_job_status(job['id'], upload_status="uploading", log_msg=...)
UploadingRow(row, current_log) ==
    update_job_status(row, None, "uploading", None, "3. Schedule Reached. Uploading...",
                      None, current_log)

\* The UPDATE that flips the job, then upload_video_to_youtube is entered.
SchedFlip ==
    /\ spc = "upl_wr"
    /\ jobs' = [jobs EXCEPT ![scur] = UploadingRow(@, slog)]
    /\ uploadCalls' = [uploadCalls EXCEPT ![scur] = @ + 1]
    /\ spc' = "auth"
    /\ UNCHANGED <<now, rvars, sjobs, scur, slog, serr, current_time, req, dueAtPoll>>

\* youtube = get_authenticated_service(): a session, or an exception.
UploadAuth(ok) ==
    /\ spc = "auth"
    /\ IF ok
       THEN /\ spc' = "chunk"
            /\ UNCHANGED serr
       ELSE /\ spc' = "fail_rd"
            /\ serr' = "Missing client_secrets.json. Cannot authenticate."
    /\ UNCHANGED <<jobs, now, rvars, sjobs, scur, slog, current_time, hvars>>

\* status, response = request.next_chunk() with response None:
\* update_job_progress(job_id, int(status.progress() * 100), ...)
UploadChunk(prog) ==
    /\ spc = "chunk"
    /\ jobs' = [jobs EXCEPT ![scur] = update_job_progress(@, prog, "Uploading to YouTube...")]
    /\ UNCHANGED <<now, rvars, spc, sjobs, scur, slog, serr, current_time, hvars>>

\* next_chunk() raises.
UploadChunkFails ==
    /\ spc = "chunk"
    /\ spc' = "fail_rd"
    /\ serr' = "chunk failed"
    /\ UNCHANGED <<jobs, now, rvars, sjobs, scur, slog, current_time, hvars>>

\* next_chunk() returns the response: update_job_progress(job_id, 100, ...)
\* and return response['id'].
UploadFinalProgress ==
    /\ spc = "chunk"
    /\ jobs' = [jobs EXCEPT ![scur] = update_job_progress(@, ProgressDone, "Upload Complete")]
    /\ spc' = "ok_rd"
    /\ UNCHANGED <<now, rvars, sjobs, scur, slog, serr, current_time, hvars>>

\* The SELECT logs of the update_job_status call that records the outcome.
SchedReadLog ==
    /\ spc \in {"ok_rd", "fail_rd"}
    /\ slog' = jobs[scur].logs
    /\ spc' = IF spc = "ok_rd" THEN "ok_wr" ELSE "fail_wr"
    /\ UNCHANGED <<jobs, now, rvars, sjobs, scur, serr, current_time, hvars>>

\* response['id']
vid_id(j) == "yt" \o ToString(j)

\* The success update without youtube_id.
UploadSuccessRow_NoId(row, j, current_log) ==
    update_job_status(row, None, "success", None, "4. Upload Success! ID: " \o vid_id(j),
                      None, current_log)

\* update_job_status(job['id'], upload_status="success", youtube_id=vid_id, log_msg=...)
UploadSuccessRow(row, j, current_log) ==
    update_job_status(row, None, "success", None, "4. Upload Success! ID: " \o vid_id(j),
                      vid_id(j), current_log)

SchedSuccess ==
    /\ spc = "ok_wr"
    /\ jobs' = [jobs EXCEPT ![scur] = UploadSuccessRow(@, scur, slog)]
    /\ spc' = "iter"
    /\ UNCHANGED <<now, rvars, sjobs, scur, slog, serr, current_time, hvars>>

\* The upload failure handler putting the job back in the queue.
UploadFailedRow_Requeue(row, current_log, e) ==
    update_job_status(row, None, "waiting_schedule", None, "Upload Failed: " \o e, None,
                      current_log)

\* The upload failure handler writing render_status instead of upload_status.
UploadFailedRow_RenderStatus(row, current_log, e) ==
    update_job_status(row, "failed", None, None, "Upload Failed: " \o e, None,
                      current_log)

\* except Exception as e: update_job_status(job['id'], upload_status="failed", log_msg=...)
UploadFailedRow(row, current_log, e) ==
    update_job_status(row, None, "failed", None, "Upload Failed: " \o e, None,
                      current_log)

\* The inner handler ending the pass after it recorded the failure.
SchedFailed_EndsPass ==
    /\ spc = "fail_wr"
    /\ jobs' = [jobs EXCEPT ![scur] = UploadFailedRow(@, slog, serr)]
    /\ spc' = "except"
    /\ UNCHANGED <<now, rvars, sjobs, scur, slog, serr, current_time, hvars>>

SchedFailed ==
    /\ spc = "fail_wr"
    /\ jobs' = [jobs EXCEPT ![scur] = UploadFailedRow(@, slog, serr)]
    /\ spc' = "iter"
    /\ UNCHANGED <<now, rvars, sjobs, scur, slog, serr, current_time, hvars>>

\* A statement of the store raises in the scheduler thread (sqlite3
\* OperationalError: database is locked, disk I/O error).  The calls made
\* inside "try: vid_id = upload_video_to_youtube(...)" are covered by the
\* inner handler, every other call of the pass by the outer one.

\* jobs = get_ready_to_upload_jobs() raises: the pass has no list.
SchedPollFails ==
    /\ spc = "sleep"
    /\ spc' = "except"
    /\ dueAtPoll' = DueNow
    /\ UNCHANGED <<jobs, now, rvars, sjobs, scur, slog, serr, current_time, uploadCalls, req>>

\* update_job_status(job['id'], upload_status="uploading", ...) raises: the
\* call stands before the inner try, the rest of the list is not visited.
SchedFlipFails ==
    /\ spc = "upl_wr"
    /\ spc' = "except"
    /\ UNCHANGED <<jobs, now, rvars, sjobs, scur, slog, serr, current_time, hvars>>

\* update_job_progress raises inside upload_video_to_youtube, or the update
\* recording the success raises: the inner handler takes over.
SchedSuccessFails ==
    /\ spc \in {"chunk", "ok_rd", "ok_wr"}
    /\ serr' = StoreError
    /\ spc' = "fail_rd"
    /\ UNCHANGED <<jobs, now, rvars, sjobs, scur, slog, current_time, hvars>>

\* The inner handler's own update_job_status raises.
SchedFailedFails ==
    /\ spc \in {"fail_rd", "fail_wr"}
    /\ spc' = "except"
    /\ UNCHANGED <<jobs, now, rvars, sjobs, scur, slog, serr, current_time, hvars>>

\* The outer handler leaving the loop instead of sleeping.
SchedRecover_Exits ==
    /\ spc = "except"
    /\ spc' = "exited"
    /\ UNCHANGED <<jobs, now, rvars, sjobs, scur, slog, serr, current_time, hvars>>

\* except Exception as e: print(...); time.sleep(20), and "while True" goes on.
SchedRecover ==
    /\ spc = "except"
    /\ spc' = "sleep"
    /\ dueAtPoll' = {}
    /\ UNCHANGED <<jobs, now, rvars, sjobs, scur, slog, serr, current_time, uploadCalls, req>>

upload_video_to_youtube ==
    \/ \E ok \in BOOLEAN : UploadAuth(ok)
    \/ \E prog \in UploadPercents : UploadChunk(prog)
    \/ UploadChunkFails
    \/ UploadFinalProgress

scheduler_loop ==
    \/ SchedPoll
    \/ SchedDue
    \/ SchedNotDue
    \/ SchedSleep
    \/ SchedFlip
    \/ upload_video_to_youtube
    \/ SchedReadLog
    \/ SchedSuccess
    \/ SchedFailed
    \/ SchedPollFails
    \/ SchedFlipFails
    \/ SchedSuccessFails
    \/ SchedFailedFails
    \/ SchedRecover

\* ------------------------------------------------------------ specification
Next ==
    \/ Tick
    \/ \E scheduled_at \in SchedTimes : Submit(scheduled_at)
    \/ \E j \in JobIds : process_asmr_video(j)
    \/ scheduler_loop

Spec == Init /\ [][Next]_vars

\* The scheduler thread is a daemon thread of its own: it is never starved,
\* and every call it makes returns or raises (an upload has finitely many
\* chunks), so a step that moves it forward is eventually taken.
SchedAdvance ==
    /\ scheduler_loop
    /\ <<spc, sjobs>>' # <<spc, sjobs>>

FairSpec == Spec /\ WF_vars(SchedAdvance)


\* ------------------------------------------------ the estimator on its own
\* The arithmetic of one pass of the render loop on a line with a time
\* token, as a function of the token, the job's duration and the seconds
\* elapsed since the encoder was started.  Job 1 has been submitted, its
\* thread has written 'rendering', started the encoder and waits for the
\* first line; every pass pushes its estimate to the job's row.

\* A quotient of two numbers, kept exact as a fraction in lowest terms.
RECURSIVE Gcd(_, _)
Gcd(a, b) == IF b = 0 THEN a ELSE Gcd(b, a % b)

Abs(a) == IF a < 0 THEN 0 - a ELSE a

Ratio(n, d) ==
    LET g == Gcd(Abs(n), Abs(d))
    IN  [num |-> n \div g, den |-> d \div g]

\* speed = current_sec / elapsed
speed(cur, elapsed) == Ratio(cur, elapsed)

\* remaining_sec = (target_duration_sec - current_sec) / speed
remaining_sec(cur, target, elapsed) ==
    Ratio((target - cur) * speed(cur, elapsed).den, speed(cur, elapsed).num)

\* Time tokens, durations in hours and elapsed seconds of the direct calls.
EstLines ==
    { <<0, 0, 1>>, <<0, 0, 36>>, <<0, 2, 0>>, <<0, 17, 24>>, <<0, 30, 0>>,
      <<0, 34, 12>>, <<0, 34, 48>>, <<0, 59, 59>>, <<1, 0, 0>>, <<1, 9, 36>>,
      <<2, 0, 0>>, <<23, 59, 59>> }
EstHours == {1, 2, 24}
EstElapsed == {1, 60, 90}

\* What the pass computes and pushes.
Estimate(line, duration_hours, elapsed) ==
    LET cur == current_sec(line)
        target == target_duration_sec(duration_hours)
    IN  [ current_sec |-> cur,
          target_duration_sec |-> target,
          elapsed |-> elapsed,
          progress |-> Progress(cur, target),
          remaining_sec |-> remaining_sec(cur, target, elapsed) ]

\* The row of job 1 when its thread enters "for line in process.stderr".
EstRow ==
    update_job_status(NewRow(0), "rendering", None, None, "1. Starting Render...",
                      None, <<>>)

InitEst ==
    /\ req = NoRequest
    /\ jobs = <<EstRow>>
    /\ now = 0
    /\ rpc = [j \in Ids |-> IF j = 1 THEN "stream" ELSE "none"]
    /\ rlog = [j \in Ids |-> <<>>]
    /\ rerr = [j \in Ids |-> None]
    /\ spawned = [j \in Ids |-> j = 1]
    /\ spc = "sleep"
    /\ sjobs = <<>>
    /\ scur = 0
    /\ slog = <<>>
    /\ serr = None
    /\ uploadCalls = [j \in Ids |-> 0]
    /\ current_time = 0
    /\ dueAtPoll = {}

\* if match: ... if current_sec > 0: ... update_job_progress(job_id, progress, eta_msg)
\* req keeps the values the pass computed.
EstimateLine(line, duration_hours, elapsed) ==
    /\ rpc[1] = "stream"
    /\ current_sec(line) > 0
    /\ req' = Estimate(line, duration_hours, elapsed)
    /\ jobs' = [jobs EXCEPT ![1] =
                  update_job_progress(@,
                      Progress(current_sec(line), target_duration_sec(duration_hours)),
                      "Selesai jam ...")]
    /\ UNCHANGED <<now, rvars, svars, uploadCalls, dueAtPoll>>

NextEst ==
    \E line \in EstLines, duration_hours \in EstHours, elapsed \in EstElapsed :
        EstimateLine(line, duration_hours, elapsed)

EstSpec == InitEst /\ [][NextEst]_vars

\* ------------------------------------------------- the store called directly
\* update_job_status called on row 1 by any thread with any arguments, the
\* row in a state the program can leave it in.  A call with a log_msg is two
\* statements, the SELECT logs and the UPDATE, and the database is free for
\* the other threads between them; a call without one is its UPDATE alone.

RenderStatuses == {"pending", "rendering", "success", "failed"}
UploadStatuses == {"idle", "waiting_schedule", "uploading", "success", "failed"}

\* Rows as add_job, process_asmr_video and scheduler_loop leave them.
StoreRows ==
    { [NewRow(0) EXCEPT !.status_render = rs] : rs \in {"pending", "rendering", "failed"} }
    \cup
    { [NewRow(0) EXCEPT !.status_render = "success", !.status_upload = us,
                        !.output_path = output_full_path(1), !.progress = ProgressDone]
        : us \in {"waiting_schedule", "uploading", "failed"} }

InitStore ==
    /\ jobs \in { <<row>> : row \in StoreRows }
    /\ now = 0
    /\ rpc = [j \in Ids |-> "none"]
    /\ rlog = [j \in Ids |-> <<>>]
    /\ rerr = [j \in Ids |-> None]
    /\ spawned = [j \in Ids |-> FALSE]
    /\ spc = "store"
    /\ sjobs = <<>>
    /\ scur = 0
    /\ slog = <<>>
    /\ serr = None
    /\ current_time = 0
    /\ dueAtPoll = {}
    /\ uploadCalls = [j \in Ids |-> 0]
    /\ req = NoRequest

\* Thread c enters update_job_status(1, ..., log_msg=...) and runs its
\* SELECT logs.  The other arguments play no part before the UPDATE.
StoreSelect(c) ==
    /\ spc = "store"
    /\ rpc[c] = "none"
    /\ Len(jobs[1].logs) < MaxStoreLog
    /\ rlog' = [rlog EXCEPT ![c] = jobs[1].logs]
    /\ rpc' = [rpc EXCEPT ![c] = "store_wr"]
    /\ UNCHANGED <<jobs, now, rerr, spawned, svars, hvars>>

\* The UPDATE and commit of thread c's call: after its SELECT when the call
\* has a log_msg (current_log is what that SELECT returned), at once when it
\* has none.
StoreUpdate(c, render_status, upload_status, output_path, log_msg, youtube_id) ==
    /\ spc = "store"
    /\ rpc[c] = IF Truthy(log_msg) THEN "store_wr" ELSE "none"
    /\ req' = Request(render_status, upload_status, output_path, log_msg, youtube_id)
    /\ jobs' = [jobs EXCEPT ![1] =
                  update_job_status(@, render_status, upload_status, output_path,
                                    log_msg, youtube_id, rlog[c])]
    /\ rpc' = [rpc EXCEPT ![c] = "none"]
    /\ UNCHANGED <<now, rlog, rerr, spawned, svars, uploadCalls, dueAtPoll>>

\* Log messages of the direct calls.
StoreMessages == {"msg", "other"}

NextStore ==
    \/ \E c \in Ids : StoreSelect(c)
    \/ \E c \in Ids,
          render_status \in RenderStatuses \cup {None},
          upload_status \in UploadStatuses \cup {None},
          output_path \in {None, output_full_path(1)},
          log_msg \in StoreMessages \cup {None},
          youtube_id \in {None, vid_id(1)} :
           StoreUpdate(c, render_status, upload_status, output_path, log_msg, youtube_id)

StoreSpec == InitStore /\ [][NextStore]_vars

\* ==================================================================== claims

Terminal == {"success", "failed"}
Row(j) == jobs[j]

\* C1: over any number of scheduler passes and any interleaving with the
\* render threads, upload_video_to_youtube is invoked at most once per job.
C1_AtMostOnceDispatch ==
    \A j \in JobIds : uploadCalls[j] <= 1

\* Job 2 was uploaded in an earlier pass and the scheduler is at work on a
\* later list that holds job 1 only (a list is walked in id order).
C1_Witness ==
    /\ Len(jobs) >= 2
    /\ uploadCalls[2] = 1
    /\ Row(2).status_upload \in Terminal
    /\ spc = "iter"
    /\ sjobs = <<1>>

\* C2: the step that sets a job's upload_status to 'uploading' is taken by
\* the scheduler for the job at hand with a current_time >= scheduled_at,
\* and the step that passes over a ready job whose scheduled_at is still
\* ahead leaves that job's row as it was and starts no upload.
C2_FlipIsDue ==
    \A j \in JobIds :
        (Row(j).status_upload # "uploading" /\ jobs'[j].status_upload = "uploading")
            => /\ scur = j
               /\ current_time >= Row(j).scheduled_at
               /\ uploadCalls'[j] = uploadCalls[j] + 1

C2_NotDueUntouched ==
    (/\ spc = "iter"
     /\ sjobs # <<>>
     /\ sjobs' = Tail(sjobs)
     /\ now < Row(Head(sjobs)).scheduled_at)
        => /\ jobs'[Head(sjobs)] = Row(Head(sjobs))
           /\ Row(Head(sjobs)).status_upload = "waiting_schedule"
           /\ uploadCalls' = uploadCalls
           /\ spc' = "iter"

C2_NeverEarly == [][C2_FlipIsDue /\ C2_NotDueUntouched]_vars

\* A job whose schedule was ahead when the clock started has been flipped to
\* 'uploading' once the clock reached it.
C2_Witness ==
    \E j \in JobIds :
        /\ Row(j).status_upload = "uploading"
        /\ Row(j).scheduled_at = MaxTime
        /\ current_time >= MaxTime
        /\ MaxTime > 0

\* C3: upload_status in {uploading, success, failed} implies
\* render_status = 'success', for every job in every reachable state.
C3_UploadGating ==
    \A j \in JobIds :
        Row(j).status_upload \in {"uploading", "success", "failed"}
            => Row(j).status_render = "success"

C3_Witness ==
    \E j \in JobIds :
        /\ Row(j).status_upload = "failed"
        /\ Row(j).status_render = "success"

\* C4: a call of update_job_status asking for upload_status = 'uploading' on
\* a row whose render_status is not 'success' leaves the row unchanged.
C4_IllegalFlipRejected ==
    [][(req'.upload_status = "uploading" /\ Row(1).status_render # "success")
          => jobs' = jobs]_vars

\* C5 as stated: no job has progress = 100 while its render_status is
\* 'pending', 'rendering' or 'failed'.
C5_HundredOnlyAtSuccess ==
    \A j \in JobIds :
        Row(j).progress = ProgressDone
            => Row(j).status_render \notin {"pending", "rendering", "failed"}

C5_HundredState ==
    \A j \in JobIds :
        Row(j).progress = ProgressDone
            => /\ Row(j).status_render # "pending"
               /\ spawned[j]
               /\ Row(j).status_render = "rendering"
                     => \/ rpc[j] \in {"succ_rd", "succ_wr"}
                        \/ rpc[j] \in {"except_wr", "died"} /\ rerr[j] = StoreError
               /\ Row(j).status_render = "failed"
                     => rpc[j] = "done" /\ rerr[j] = StoreError

C5_HundredStep ==
    \A j \in JobIds :
        /\ (/\ Row(j).status_render # "success"
            /\ Row(j).progress # ProgressDone
            /\ jobs'[j].progress = ProgressDone)
               => /\ rpc[j] = "stream"
                  /\ rpc'[j] = "succ_rd"
                  /\ Row(j).status_render = "rendering"
        /\ (rpc[j] = "stream" /\ rpc'[j] = "stream")
               => jobs'[j].progress <= ProgressCap

\* C5 amended: in the render phase progress = 100 is stored only once the
\* encoder has exited with code 0, by an update of its own that precedes the
\* one setting render_status = 'success'; every push made while the stream
\* is read is at most 99.  No job has progress = 100 while 'pending'; a job
\* has it while 'rendering' between those two updates, and while 'failed'
\* (or left 'rendering') only when the update setting 'success' raised.
C5_HundredOnlyAfterZeroExit ==
    [](C5_HundredState) /\ [][C5_HundredStep]_vars

\* progress = 100 is visible while render_status is still 'rendering', and
\* on another job whose final update raised and which was recorded 'failed'.
C5_Witness ==
    \E j, k \in JobIds :
        /\ Row(j).progress = ProgressDone
        /\ Row(j).status_render = "rendering"
        /\ rpc[j] = "succ_wr"
        /\ Row(k).progress = ProgressDone
        /\ Row(k).status_render = "failed"

\* C6: while render_status stays 'rendering', no step lowers progress.
C6_ProgressNonDecreasing ==
    [][\A j \in JobIds :
          (Row(j).status_render = "rendering" /\ jobs'[j].status_render = "rendering")
              => jobs'[j].progress >= Row(j).progress]_vars

RenderSteps == {<<"pending", "rendering">>, <<"rendering", "success">>,
                <<"rendering", "failed">>}

\* C7 as stated: render_status changes only along pending -> rendering,
\* rendering -> success, rendering -> failed.
C7_RenderMachine ==
    [][\A j \in JobIds :
          jobs'[j].status_render # Row(j).status_render
              => <<Row(j).status_render, jobs'[j].status_render>> \in RenderSteps]_vars

\* C7 amended: render_status changes only along pending -> rendering,
\* rendering -> success, rendering -> failed, and pending -> failed, the last
\* one taken only when the render fails before 'rendering' is written: the
\* encoder is missing, or the update writing 'rendering' itself raises (no
\* process was started either way); 'success' and 'failed' are never left.
C7_RenderMachineWithEarlyFailure ==
    [][\A j \in JobIds :
          jobs'[j].status_render # Row(j).status_render
              => \/ <<Row(j).status_render, jobs'[j].status_render>> \in RenderSteps
                 \/ /\ Row(j).status_render = "pending"
                    /\ jobs'[j].status_render = "failed"
                    /\ rerr[j] \in {"FFmpeg not found!", StoreError}
                    /\ ~spawned[j]]_vars

\* Both early failures happened: one job failed from 'pending' because the
\* encoder was missing, another because the update writing 'rendering'
\* raised (its only log entry is the failure).
C7_Witness ==
    \E j, k \in JobIds :
        /\ Row(j).status_render = "failed"
        /\ ~spawned[j]
        /\ rerr[j] = "FFmpeg not found!"
        /\ Row(k).status_render = "failed"
        /\ ~spawned[k]
        /\ rerr[k] = StoreError
        /\ Row(k).logs = <<"Rendering Failed: " \o StoreError>>

UploadSteps == {<<"idle", "waiting_schedule">>, <<"waiting_schedule", "uploading">>,
                <<"uploading", "success">>, <<"uploading", "failed">>}

\* C8: upload_status changes only along idle -> waiting_schedule ->
\* uploading -> {success, failed}; 'success' and 'failed' are never left and
\* an upload is started only for a job that is in 'waiting_schedule'.
C8_UploadMachine ==
    [][\A j \in JobIds :
          /\ jobs'[j].status_upload # Row(j).status_upload
                => <<Row(j).status_upload, jobs'[j].status_upload>> \in UploadSteps
          /\ uploadCalls'[j] # uploadCalls[j]
                => Row(j).status_upload = "waiting_schedule"]_vars

\* One job ended its upload in 'failed', and the scheduler has taken a new
\* list since (it is walking one that does not hold the job).
C8_Witness ==
    \E j \in JobIds :
        /\ Row(j).status_upload = "failed"
        /\ uploadCalls[j] = 1
        /\ spc = "iter"
        /\ scur # j

C10_Together ==
    \A j \in JobIds :
        /\ Row(j).status_render = "success" <=> Row(j).output_path # None
        /\ Row(j).status_render = "success" <=> Row(j).status_upload # "idle"
        /\ Row(j).output_path \in {None, output_full_path(j)}

C10_WrittenOnce ==
    \A j \in JobIds :
        /\ Row(j).output_path # None => jobs'[j].output_path = Row(j).output_path
        /\ (Row(j).output_path = None /\ jobs'[j].output_path # None)
              => /\ Row(j).status_render = "rendering"
                 /\ jobs'[j].status_render = "success"
                 /\ jobs'[j].status_upload = "waiting_schedule"

\* C10: render_status = 'success', output_path set and upload_status # 'idle'
\* hold together or not at all in every reachable state; output_path is
\* written by the step that records the success and by no later step.
C10_RenderSuccessAtomic == []C10_Together /\ [][C10_WrittenOnce]_vars

\* A job whose artifact was recorded has since gone through a whole upload.
C10_Witness ==
    \E j \in JobIds :
        /\ Row(j).output_path = output_full_path(j)
        /\ Row(j).status_upload = "success"

\* C11: in every state a job's youtube_id is set exactly when its
\* upload_status is 'success'; the step that makes upload_status 'success'
\* is one update of the row that also writes the id the upload returned and
\* appends the success entry to the log, and the row's progress was already
\* 100 when that step was taken.
C11_IdIffSuccess ==
    \A j \in JobIds :
        (Row(j).youtube_id # None) <=> (Row(j).status_upload = "success")

C11_SuccessStep ==
    \A j \in JobIds :
        (Row(j).status_upload # "success" /\ jobs'[j].status_upload = "success")
            => /\ Row(j).progress = ProgressDone
               /\ Row(j).status_upload = "uploading"
               /\ Row(j).youtube_id = None
               /\ jobs'[j] = [Row(j) EXCEPT
                     !.status_upload = "success",
                     !.youtube_id = vid_id(j),
                     !.logs = Append(Row(j).logs, "4. Upload Success! ID: " \o vid_id(j))]

C11_IdOnlyOnSuccess == [](C11_IdIffSuccess) /\ [][C11_SuccessStep]_vars

\* An upload has succeeded and its id is in the row.
C11_Witness ==
    \E j \in JobIds :
        /\ Row(j).status_upload = "success"
        /\ Row(j).youtube_id = vid_id(j)
        /\ Row(j).progress = ProgressDone
        /\ uploadCalls[j] = 1

\* C12: when the upload of a job fails (no authenticated session, a chunk
\* raising, a statement of the store raising inside the upload), the step
\* that ends the handling of the failure sets upload_status to 'failed' and
\* appends the diagnostic to the log, leaving render_status, output_path
\* and youtube_id as they were; once the scheduler has moved on the job is
\* 'failed', and a failed job is never dispatched again.
UploadErrors ==
    {"Missing client_secrets.json. Cannot authenticate.", "chunk failed", StoreError}

C12_FailureHandled ==
    (spc \in {"fail_rd", "fail_wr"} /\ spc' \notin {"fail_rd", "fail_wr"})
        => /\ serr \in UploadErrors
           /\ jobs' = [jobs EXCEPT ![scur] =
                 [@ EXCEPT !.status_upload = "failed",
                           !.logs = Append(Row(scur).logs, "Upload Failed: " \o serr)]]
           /\ Row(scur).status_upload = "uploading"

C12_FailedIsFinal ==
    \A j \in JobIds :
        Row(j).status_upload = "failed"
            => /\ jobs'[j].status_upload = "failed"
               /\ jobs'[j].status_render = Row(j).status_render
               /\ jobs'[j].output_path = Row(j).output_path
               /\ jobs'[j].youtube_id = Row(j).youtube_id
               /\ uploadCalls'[j] = uploadCalls[j]

C12_FailedState ==
    \A j \in JobIds :
        /\ Row(j).status_upload = "failed"
              => /\ Row(j).status_render = "success"
                 /\ Row(j).output_path = output_full_path(j)
                 /\ Row(j).youtube_id = None
                 /\ uploadCalls[j] = 1
                 /\ \E e \in UploadErrors :
                        Row(j).logs[Len(Row(j).logs)] = "Upload Failed: " \o e
        /\ ~(Row(j).status_upload = "uploading" /\ spc \in {"iter", "sleep"})

C12_UploadFailure ==
    [](C12_FailedState) /\ [][C12_FailureHandled /\ C12_FailedIsFinal]_vars

\* C13: the scheduler loop never stops.  Whatever raises during a pass (the
\* ready query, a status update, the upload), the loop reaches its sleep and
\* then starts another pass: the scheduler is infinitely often asleep and
\* infinitely often in a pass, and every failure caught by the outer handler
\* is followed by the sleep.
C13_LoopNeverStops ==
    /\ []<>(spc = "sleep")
    /\ []<>(spc # "sleep")
    /\ (spc = "except") ~> (spc = "sleep")

\* The outer handler caught a failure of a dispatch, the loop slept and is
\* in a later pass, in which it dispatches another job.
C13_Witness ==
    \E j \in JobIds :
        /\ Row(j).status_upload = "uploading"
        /\ scur # j
        /\ spc = "auth"

\* C14: failures are local to one job and one phase.  A step in which the
\* render or the dispatch/upload of job A fails, or in which its failure is
\* handled, changes no field of another job's row and leaves every other
\* job's render thread where it was; and a failure of A's dispatch never
\* ends the pass while a job that is ready and due is left in the list.

\* The step raises an exception in A's render thread or handles one.
RenderFailureStep(A) ==
    \/ rpc[A] # "except_wr" /\ rpc'[A] = "except_wr"
    \/ rpc[A] = "except_wr" /\ rpc'[A] # "except_wr"

\* The step raises an exception in A's dispatch or handles one.
DispatchFailureStep(A) ==
    /\ scur = A
    /\ \/ spc \in {"upl_wr", "auth", "chunk", "ok_rd", "ok_wr"}
             /\ spc' \in {"fail_rd", "except"}
       \/ spc \in {"fail_rd", "fail_wr"} /\ spc' # spc

OthersUntouched(A) ==
    \A B \in JobIds \ {A} :
        /\ jobs'[B] = Row(B)
        /\ rpc'[B] = rpc[B]
        /\ rlog'[B] = rlog[B]
        /\ rerr'[B] = rerr[B]

C14_Frame ==
    \A A \in JobIds :
        (RenderFailureStep(A) \/ DispatchFailureStep(A)) => OthersUntouched(A)

\* Jobs left in the list of the pass that are ready and due.
ReadyAndDueLeft ==
    { sjobs[i] : i \in { k \in 1..Len(sjobs) :
        IsReady(Row(sjobs[k])) /\ IsDue(now, Row(sjobs[k]).scheduled_at) } }

C14_PassGoesOn ==
    \A A \in JobIds :
        (DispatchFailureStep(A) /\ ReadyAndDueLeft # {})
            => spc' # "except" /\ sjobs' = sjobs

C14_FailuresLocal == [][C14_Frame /\ C14_PassGoesOn]_vars

\* C14 as amended: the frame as above; a failure raised by A's upload call
\* is recorded by the inner handler, after which the pass goes on with the
\* rest of its list; when a statement of the store raises in A's dispatch
\* outside that handler the pass ends, and every job left in its list is
\* still ready, as it was, for a later pass.
C14_UploadFailureGoesOn ==
    (spc = "fail_wr" /\ jobs'[scur] # Row(scur))
        => /\ jobs'[scur].status_upload = "failed"
           /\ spc' = "iter"
           /\ sjobs' = sjobs

C14_EndedPassLeavesReady ==
    (spc # "except" /\ spc' = "except")
        => /\ spc \in {"sleep", "upl_wr", "fail_rd", "fail_wr"}
           /\ \A B \in ReadyAndDueLeft : jobs'[B] = Row(B) /\ IsReady(jobs'[B])

C14_FailuresLocalPerHandler ==
    [][C14_Frame /\ C14_UploadFailureGoesOn /\ C14_EndedPassLeavesReady]_vars

\* The upload of job 1 failed and was recorded by the inner handler, and
\* job 2 has been flipped to 'uploading' and is being dispatched.
C14_Witness ==
    /\ Len(jobs) >= 2
    /\ Row(1).status_upload = "failed"
    /\ Row(2).status_upload = "uploading"
    /\ scur = 2
    /\ serr \in UploadErrors

\* C15: the log is append-only under every interleaving of the render
\* threads and the scheduler: in every step each job's log before the step
\* is a prefix of its log after the step; and although an append is a SELECT
\* followed by an UPDATE, the log a thread has read is still the row's log
\* when the thread writes.
IsPrefix(s, t) ==
    Len(s) <= Len(t) /\ SubSeq(t, 1, Len(s)) = s

C15_PrefixStep ==
    \A j \in JobIds : IsPrefix(Row(j).logs, jobs'[j].logs)

C15_ReadIsCurrent ==
    /\ \A j \in JobIds :
          rpc[j] \in {"start_wr", "succ_wr", "except_wr"} => rlog[j] = Row(j).logs
    /\ spc \in {"upl_wr", "ok_wr", "fail_wr"} => slog = Row(scur).logs

C15_LogAppendOnly == [](C15_ReadIsCurrent) /\ [][C15_PrefixStep]_vars

\* Both writers of one job have appended: its render thread twice, then the
\* scheduler twice, while another job's render thread is between its read
\* and its write.
C15_Witness ==
    \E j, k \in JobIds :
        /\ Len(Row(j).logs) = 4
        /\ Row(j).logs[1] = "1. Starting Render..."
        /\ Row(j).logs[4] = "4. Upload Success! ID: " \o vid_id(j)
        /\ rpc[k] = "succ_wr"

\* C16 as stated: a job that is rendered, waiting for its schedule and due
\* when a pass of the scheduler begins is flipped to 'uploading' and handed
\* to the upload in that very pass, however many other jobs are ready or
\* are uploaded before it: during the pass it is still in the list with its
\* turn to come, or it has been taken and its upload invoked; when the pass
\* ends its upload has been invoked once and has ended, with upload_status
\* 'success' and youtube_id set if the upload completed.
InList(j) ==
    \E i \in 1..Len(sjobs) : sjobs[i] = j

Dispatched(j) ==
    /\ uploadCalls[j] = 1
    /\ Row(j).status_upload \in {"uploading", "success", "failed"}

C16_DuringPass ==
    \A j \in dueAtPoll :
        \/ /\ spc \notin {"sleep", "except"}
           /\ InList(j)
           /\ Row(j).status_upload = "waiting_schedule"
        \/ /\ spc = "upl_wr"
           /\ scur = j
        \/ Dispatched(j)

C16_EndOfPass ==
    (spc # "sleep" /\ spc' = "sleep")
        => \A j \in dueAtPoll :
              /\ uploadCalls[j] = 1
              /\ \/ Row(j).status_upload = "success" /\ Row(j).youtube_id = vid_id(j)
                 \/ Row(j).status_upload = "failed"

C16_DispatchWithinOnePass == [](C16_DuringPass) /\ [][C16_EndOfPass]_vars

\* C16 amended: the same for a pass that no raising statement of the store
\* ends early, that is a pass that reaches the end of its list.  A pass
\* ended early by the outer handler (the ready query raised, or the update
\* to 'uploading' of the job or of one before it, or the update recording a
\* failed upload of one before it) leaves each job that was due when it
\* began either dispatched or untouched and still ready and due, for a later
\* pass.  The update that records a completed upload, when it does not
\* raise, sets upload_status 'success' and youtube_id.
C16_DuringUnbrokenPass ==
    \A j \in dueAtPoll :
        \/ /\ spc \notin {"sleep", "except"}
           /\ InList(j)
           /\ Row(j).status_upload = "waiting_schedule"
        \/ /\ spc = "upl_wr"
           /\ scur = j
        \/ Dispatched(j)
        \/ /\ spc = "except"
           /\ uploadCalls[j] = 0
           /\ j \in DueNow

C16_EndOfUnbrokenPass ==
    (spc = "iter" /\ spc' = "sleep")
        => \A j \in dueAtPoll :
              /\ uploadCalls[j] = 1
              /\ \/ Row(j).status_upload = "success" /\ Row(j).youtube_id = vid_id(j)
                 \/ Row(j).status_upload = "failed"

C16_CompletedIsRecorded ==
    (spc = "ok_wr" /\ jobs'[scur] # Row(scur))
        => /\ jobs'[scur].status_upload = "success"
           /\ jobs'[scur].youtube_id = vid_id(scur)

C16_DispatchWithinUnbrokenPass ==
    /\ [](C16_DuringUnbrokenPass)
    /\ [][C16_EndOfUnbrokenPass /\ C16_CompletedIsRecorded]_vars

\* Two jobs were ready and due at the same poll; both have been dispatched
\* in that pass, the second after the first one's upload, and the pass is
\* at its end.
C16_Witness ==
    /\ dueAtPoll = {1, 2}
    /\ spc = "iter"
    /\ sjobs = <<>>
    /\ uploadCalls[1] = 1
    /\ uploadCalls[2] = 1
    /\ Row(2).status_upload = "success"
    /\ Row(2).youtube_id = vid_id(2)

\* C17: a single writer per phase.  Whenever the scheduler holds a job (the
\* job is in the list of the current pass, or is the one being dispatched)
\* or has ever dispatched it or written an upload status to its row, that
\* job's render thread has made its last write and has ended.
SchedHolds(j) ==
    \/ spc = "iter" /\ \E i \in 1..Len(sjobs) : sjobs[i] = j
    \/ spc \in {"upl_wr", "auth", "chunk", "ok_rd", "ok_wr", "fail_rd", "fail_wr"}
          /\ scur = j
    \/ uploadCalls[j] > 0
    \/ Row(j).status_upload \in {"uploading", "success", "failed"}

C17_SingleWriter ==
    \A j \in JobIds : SchedHolds(j) => rpc[j] = "done"

\* The scheduler is writing a job's row while another job's render thread
\* is writing its own.
C17_Witness ==
    \E j, k \in JobIds :
        /\ spc = "chunk"
        /\ scur = j
        /\ Row(j).progress \in UploadPercents
        /\ rpc[j] = "done"
        /\ rpc[k] = "stream"
        /\ Row(k).progress > 0

\* C18: in every reachable state the stored progress of every job is an
\* integer from 0 to 100, whatever the encoder's timestamps (the ones beyond
\* the target duration included) and whatever the upload reports.
C18_ProgressInRange ==
    \A j \in JobIds : Row(j).progress \in 0..ProgressDone

\* A timestamp beyond the target was pushed for one job (twice the target:
\* 200 percent uncapped), and an upload has pushed a percent for another.
C18_Witness ==
    \E j, k \in JobIds :
        /\ rpc[j] = "stream"
        /\ Row(j).progress
              = Progress(current_sec(<<2, 0, 0>>), target_duration_sec(DefaultHours))
        /\ current_sec(<<2, 0, 0>>) > target_duration_sec(DefaultHours)
        /\ Row(k).status_upload = "uploading"
        /\ Row(k).progress \in UploadPercents

\* C19: for every current_sec > 0 and target > 0 the pushed percent is
\* min(99, floor(100 * current_sec / target)) and the remaining time is
\* (target - current_sec) / (current_sec / elapsed); with target 3600,
\* elapsed 60 and current_sec 120 the percent is 3 and the remaining time
\* 1740 seconds.
C19_EstimatorArithmetic ==
    req # NoRequest
        => /\ Row(1).progress = req.progress
           /\ req.progress
                = Min(ProgressCap, (100 * req.current_sec) \div req.target_duration_sec)
           /\ req.remaining_sec.num * req.current_sec
                = (req.target_duration_sec - req.current_sec) * req.elapsed
                     * req.remaining_sec.den
           /\ (req.target_duration_sec = 3600 /\ req.elapsed = 60 /\ req.current_sec = 120)
                => req.progress = 3 /\ req.remaining_sec = [num |-> 1740, den |-> 1]

\* C20: in the upload phase progress reaches 100 only after the platform's
\* final acknowledgment: in every state a job whose upload_status is
\* 'uploading' has progress 100 only if its upload has received the final
\* response (the scheduler is recording that job's success), so progress is
\* not 100 when the scheduler has just flipped the job to 'uploading', nor
\* while chunks are outstanding.
FinalAckSeen(j) ==
    scur = j /\ spc \in {"ok_rd", "ok_wr"}

C20_HundredOnlyAfterFinalAck ==
    \A j \in JobIds :
        (Row(j).status_upload = "uploading" /\ Row(j).progress = ProgressDone)
            => FinalAckSeen(j)

\* C21: uploads are serialized by the one scheduler thread.  In every state
\* at most one job has upload_status 'uploading'; and the step that flips a
\* job to 'uploading' is taken only when no other job is 'uploading' and
\* every job whose upload was invoked before has ended in 'success' or
\* 'failed'.
Uploading ==
    { j \in JobIds : Row(j).status_upload = "uploading" }

C21_OneAtATime ==
    Cardinality(Uploading) <= 1

C21_FlipAfterPreviousEnded ==
    \A j \in JobIds :
        (Row(j).status_upload # "uploading" /\ jobs'[j].status_upload = "uploading")
            => /\ Uploading = {}
               /\ \A k \in JobIds \ {j} :
                     uploadCalls[k] > 0 => Row(k).status_upload \in Terminal

C21_UploadsSerialized ==
    [](C21_OneAtATime) /\ [][C21_FlipAfterPreviousEnded]_vars

\* C22: no job is left in 'uploading' forever.  Given that the scheduler
\* thread keeps running and every call it makes returns or raises, a job
\* whose upload_status is 'uploading' eventually has upload_status 'success'
\* or 'failed', also when a statement of the store that records the outcome
\* raises.
C22_NoJobStuckUploading ==
    \A j \in Ids :
        (j <= Len(jobs) /\ jobs[j].status_upload = "uploading")
            ~> (j <= Len(jobs) /\ jobs[j].status_upload \in Terminal)

====
